---------------------------- MODULE Spec2Model ----------------------------
(***************************************************************************)
(* A model of mandelbrot.py: the multibrot escape-time evaluator           *)
(* (calc_zeta, calc_zeta_n), the colour mapping (map_angle_to_colour,      *)
(* get_pixel_colour), the coordinate mapping (coord_to_complex,            *)
(* coord_to_pixel) and the rendering loop (main).                          *)
(*                                                                         *)
(* Numbers.  A Python float is modelled as a fixed-point number: the       *)
(* integer v stands for v / Q.  The finite floats are -MaxFloat..MaxFloat; *)
(* PInf, NInf and NaN are the IEEE specials.  Arithmetic that leaves the   *)
(* finite range yields an infinity, as IEEE arithmetic does; Python turns  *)
(* that into OverflowError only in `**` and in abs().                      *)
(***************************************************************************)
EXTENDS Integers, Sequences, FiniteSets, TLC

\* ------------------------------------------------------------------ bounds
\* Fixed-point scale of the float model: v stands for v / Q.
Q == 4
\* Largest finite magnitude of the float model, in units of 1.
MaxReal == 3000
\* Explicit calls take c from the integer points of [-MaxC, MaxC]^2 ...
MaxC == 2
\* ... the exponent d from 1..MaxD and the iteration bound n from 0..MaxN.
MaxD == 4
MaxN == 3

\* --------------------------------------------------- constants of the code
CONST_D == 4
CONST_N == 200
CONST_MIN_WIDTH == -2
CONST_MAX_WIDTH == 1
CONST_MIN_HEIGHT == -1
CONST_MAX_HEIGHT == 1
\* The resolutions are 1500 and 1000 in the code; the model renders a small
\* grid of the same shape.
CONST_WIDTH_RESOLUTION == 4
CONST_HEIGHT_RESOLUTION == 3
CONST_DIVERGENCE_LIMIT == 2

\* ------------------------------------------------------------- float model
MaxFloat == MaxReal * Q
PInf == MaxFloat + 1
NInf == -(MaxFloat + 1)
NaN == MaxFloat + 2

IsNaN(x) == x = NaN
IsInf(x) == x = PInf \/ x = NInf
IsFin(x) == ~IsNaN(x) /\ ~IsInf(x)

Abs(x) == IF x < 0 THEN -x ELSE x
Sgn(x) == IF x < 0 THEN -1 ELSE IF x > 0 THEN 1 ELSE 0

\* An exact result brought back to the float range: out of range is +-inf.
Fl(v) == IF v > MaxFloat THEN PInf ELSE IF v < -MaxFloat THEN NInf ELSE v

\* n / Q rounded to the nearest unit (the rounding of a float product).
RoundQ(n) == (2 * n + Q) \div (2 * Q)

FNeg(x) == IF IsNaN(x) THEN NaN ELSE -x

\* IEEE addition: inf + (-inf) is nan, an out-of-range sum is an infinity.
FAdd(x, y) ==
    IF IsNaN(x) \/ IsNaN(y) THEN NaN
    ELSE IF IsInf(x) /\ IsInf(y) THEN (IF x = y THEN x ELSE NaN)
    ELSE IF IsInf(x) THEN x
    ELSE IF IsInf(y) THEN y
    ELSE Fl(x + y)

FSub(x, y) == FAdd(x, FNeg(y))

\* IEEE multiplication: inf * 0 is nan, an out-of-range product an infinity.
FMul(x, y) ==
    IF IsNaN(x) \/ IsNaN(y) THEN NaN
    ELSE IF IsInf(x) \/ IsInf(y)
         THEN (IF x = 0 \/ y = 0 THEN NaN
               ELSE IF Sgn(x) * Sgn(y) > 0 THEN PInf ELSE NInf)
    ELSE Fl(RoundQ(x * y))

\* ---------------------------------------------------------- complex values
Cx(re, im) == [re |-> re, im |-> im]
CZero == Cx(0, 0)
COne == Cx(Q, 0)

\* complex + complex: componentwise, never raises.
c_sum(a, b) == Cx(FAdd(a.re, b.re), FAdd(a.im, b.im))

\* c_prod with the sign of the real part's second product lost.
c_prod_plus(a, b) ==
    Cx(FAdd(FMul(a.re, b.re), FMul(a.im, b.im)),
       FAdd(FMul(a.re, b.im), FMul(a.im, b.re)))

\* complex * complex: (a+bi)(x+yi) = (ax-by) + (ay+bx)i.
c_prod(a, b) ==
    Cx(FSub(FMul(a.re, b.re), FMul(a.im, b.im)),
       FAdd(FMul(a.re, b.im), FMul(a.im, b.re)))

\* x ** n for a small positive integer n: binary exponentiation, the loop
\*   r = 1; p = x; while n >= mask: if n & mask: r = r*p; mask <<= 1; p = p*p
\* The loop state <<r, p, mask>> is the argument of a recursive function.
c_powu_loop(n) ==
    LET Complex == [re : Int, im : Int]
        loop[s \in Complex \X Complex \X Nat] ==
            IF s[3] > n THEN s[1]
            ELSE loop[<<IF (n \div s[3]) % 2 = 1 THEN c_prod(s[1], s[2]) ELSE s[1],
                        c_prod(s[2], s[2]), 2 * s[3]>>]
    IN  loop

c_powu(x, n) == c_powu_loop(n)[<<COne, x, 1>>]

\* The outcome of an expression: a value, or an exception raised.
Val(v) == [raised |-> FALSE, val |-> v]
Raise == [raised |-> TRUE, val |-> CZero]

\* x ** d: OverflowError when a component of the power is infinite.  (The
\* one-element set binds the power, so that it is computed once.)
complex_pow(x, dd) ==
    CHOOSE out \in {IF IsInf(p.re) \/ IsInf(p.im) THEN Raise ELSE Val(p) :
                    p \in {c_powu(x, dd)}} : TRUE

\* calc_zeta: zeta_n_minus_one ** d + c.
calc_zeta(zeta_n_minus_one, cc, dd) ==
    CHOOSE out \in {IF p.raised THEN Raise ELSE Val(c_sum(p.val, cc)) :
                    p \in {complex_pow(zeta_n_minus_one, dd)}} : TRUE

\* abs(zeta) raises OverflowError when the components are finite and the
\* modulus is not.
AbsRaises(z) ==
    /\ IsFin(z.re) /\ IsFin(z.im)
    /\ z.re * z.re + z.im * z.im > MaxFloat * MaxFloat

\* Diverges with >= for >.
DivergesAtLimit(z, limit) ==
    IF IsInf(z.re) \/ IsInf(z.im) THEN TRUE
    ELSE IF IsNaN(z.re) \/ IsNaN(z.im) THEN FALSE
    ELSE IF limit < 0 THEN TRUE
    ELSE z.re * z.re + z.im * z.im >= limit * limit

\* abs(zeta) > divergence_limit: an infinite component makes the modulus
\* inf, otherwise a nan component makes it nan and the comparison false.
Diverges(z, limit) ==
    IF IsInf(z.re) \/ IsInf(z.im) THEN TRUE
    ELSE IF IsNaN(z.re) \/ IsNaN(z.im) THEN FALSE
    ELSE IF limit < 0 THEN TRUE
    ELSE z.re * z.re + z.im * z.im > limit * limit


\* ------------------------------------------------------------ colour model
\* Angles are floats holding whole degrees; NaN is the nan angle.

\* 1000 * tan(k degrees) for k = 0..89, rounded.
TanTable ==
    << 0, 17, 35, 52, 70, 87, 105, 123, 141, 158, 176, 194, 213, 231, 249,
       268, 287, 306, 325, 344, 364, 384, 404, 424, 445, 466, 488, 510, 532,
       554, 577, 601, 625, 649, 675, 700, 727, 754, 781, 810, 839, 869, 900,
       933, 966, 1000, 1036, 1072, 1111, 1150, 1192, 1235, 1280, 1327, 1376,
       1428, 1483, 1540, 1600, 1664, 1732, 1804, 1881, 1963, 2050, 2145,
       2246, 2356, 2475, 2605, 2747, 2904, 3078, 3271, 3487, 3732, 4011,
       4331, 4705, 5145, 5671, 6314, 7115, 8144, 9514, 11430, 14301, 19081,
       28636, 57290 >>

\* atan(y / x) in whole degrees, rounded down, for finite x > 0, y > 0.
AtanDeg(y, x) ==
    CHOOSE k \in 0..89 :
        /\ TanTable[k + 1] * x <= 1000 * y
        /\ (k < 89 => TanTable[k + 2] * x > 1000 * y)

\* np.angle(zeta, deg=True): atan2(im, re) in degrees, here truncated toward
\* zero to whole degrees.  The model has no negative zero, so a point of the
\* negative real axis has angle 180.
np_angle(z) ==
    IF IsNaN(z.re) \/ IsNaN(z.im) THEN NaN
    ELSE IF IsInf(z.re) /\ IsInf(z.im)
         THEN (IF z.re = PInf THEN 45 ELSE 135) * Sgn(z.im)
    ELSE IF IsInf(z.im) THEN 90 * Sgn(z.im)
    ELSE IF z.re = PInf THEN 0
    ELSE IF z.re = NInf THEN (IF z.im < 0 THEN -180 ELSE 180)
    ELSE IF z.im = 0 THEN (IF z.re < 0 THEN 180 ELSE 0)
    ELSE IF z.re = 0 THEN 90 * Sgn(z.im)
    ELSE LET base == AtanDeg(Abs(z.im), Abs(z.re))
             exact == Abs(z.im) = Abs(z.re)
             mag == IF z.re > 0 THEN base
                    ELSE IF exact THEN 180 - base ELSE 179 - base
         IN  mag * Sgn(z.im)

\* k * [v] of Python: the list of k copies of v, empty when k <= 0.
Rep(k, v) == [j \in 1..k |-> v]

\* map_angle_to_colour with round() for int().
map_angle_to_colour_rounded(angle) ==
    IF IsNaN(angle) THEN [raised |-> TRUE, rgb |-> << >>]
    ELSE LET a == IF angle < 0 THEN Abs(angle) + 180 ELSE angle
             colour_val == (765 * a + 180) \div 360
             num == colour_val \div 255
         IN  [raised |-> FALSE,
              rgb |-> Rep(num, 255) \o <<colour_val % 255>> \o Rep(2 - num, 1)]

\* map_angle_to_colour: the tuple built at the return; int(nan) raises
\* ValueError.
map_angle_to_colour(angle) ==
    IF IsNaN(angle) THEN [raised |-> TRUE, rgb |-> << >>]
    ELSE LET a == IF angle < 0 THEN Abs(angle) + 180 ELSE angle
             colour_val == (765 * a) \div 360
             num == colour_val \div 255
         IN  [raised |-> FALSE,
              rgb |-> Rep(num, 255) \o <<colour_val % 255>> \o Rep(2 - num, 1)]

\* 2 ** k for k >= 0.
RECURSIVE Pow2(_)
Pow2(k) == IF k = 0 THEN 1 ELSE 2 * Pow2(k - 1)

\* The brightness multiplier as a fraction <<numerator, denominator>>:
\* 0 when iteration == CONST_N, else 1 - 2 ** (-iteration - 1/255).
\* 2 ** (-1/255) is 0.9973 to four places.  From iteration 54 on the double
\* result is exactly 1.0; between 8 and 53 the multiplier lies in
\* (254/255, 1), where every value truncates the products below alike, and
\* the value for iteration 8 stands for all of them.
brightness_multiplier(iteration) ==
    IF iteration = CONST_N THEN <<0, 1>>
    ELSE IF iteration >= 54 THEN <<1, 1>>
    ELSE LET e == Pow2(IF iteration < 8 THEN iteration ELSE 8)
         IN  <<10000 * e - 9973, 10000 * e>>

\* int(brightness_multiplier * component * 1)
Scaled(b, component) == (b[1] * component) \div b[2]

\* get_pixel_colour: ValueError when the angle is nan or when the tuple of
\* map_angle_to_colour does not unpack into three names.
get_pixel_colour(z, iteration) ==
    LET angle == np_angle(z)
        b == brightness_multiplier(iteration)
        m == map_angle_to_colour(angle)
    IN  IF m.raised \/ Len(m.rgb) # 3
        THEN [raised |-> TRUE, brightness |-> b, colour |-> << >>]
        ELSE [raised |-> FALSE, brightness |-> b,
              colour |-> <<Scaled(b, m.rgb[1]), Scaled(b, m.rgb[2]),
                           Scaled(b, m.rgb[3])>>]

\* ------------------------------------------------------- coordinate mapping
\* The sample points are kept as exact fractions n / d (d > 0): double
\* precision resolves them far below the pixel spacing.
Frac(nn, dd) == [n |-> nn, d |-> dd]

\* np.linspace(start, stop, num): num evenly spaced points, both ends
\* included, as a sequence.
linspace(start, stop, num) ==
    [k \in 1..num |-> Frac(start * (num - 1) + (k - 1) * (stop - start), num - 1)]

CONST_WIDTH_SPACING ==
    Frac(Abs(CONST_MAX_WIDTH - CONST_MIN_WIDTH), CONST_WIDTH_RESOLUTION)
CONST_HEIGHT_SPACING ==
    Frac(Abs(CONST_MAX_HEIGHT - CONST_MIN_HEIGHT), CONST_HEIGHT_RESOLUTION)

\* PixelIndex without the subtraction of the lower bound.
PixelIndexFromZero(v, lo, spacing) ==
    Abs(v.n * spacing.d) \div (v.d * spacing.n)

\* int(abs((v - lo) / spacing))
PixelIndex(v, lo, spacing) ==
    Abs((v.n - lo * v.d) * spacing.d) \div (v.d * spacing.n)

coord_to_pixel(coord) ==
    <<PixelIndex(coord[1], CONST_MIN_WIDTH, CONST_WIDTH_SPACING),
      PixelIndex(coord[2], CONST_MIN_HEIGHT, CONST_HEIGHT_SPACING)>>

\* A sample point as a float: the nearest fixed-point value.
ToFloat(f) == (2 * f.n * Q + f.d) \div (2 * f.d)

coord_to_complex(coord) == Cx(ToFloat(coord[1]), ToFloat(coord[2]))

x_points == linspace(CONST_MIN_WIDTH, CONST_MAX_WIDTH, CONST_WIDTH_RESOLUTION)
y_points == linspace(CONST_MIN_HEIGHT, CONST_MAX_HEIGHT, CONST_HEIGHT_RESOLUTION)

\* The pixels of the image: (CONST_WIDTH_RESOLUTION + 1) x
\* (CONST_HEIGHT_RESOLUTION + 1).
Pixels == (0..CONST_WIDTH_RESOLUTION) \X (0..CONST_HEIGHT_RESOLUTION)
White == <<255, 255, 255>>

\* ------------------------------------------------------------------ inputs
\* The complex points the explicit calls are made with: the integer points
\* of a small square, the points of the repository's tests, and points
\* whose powers, sums or moduli leave the float range.
IntPoint(a, b) == Cx(a * Q, b * Q)
Points ==
    {IntPoint(a, b) : a \in -MaxC..MaxC, b \in -MaxC..MaxC}
    \cup {IntPoint(51, -25), IntPoint(15, 0), IntPoint(55, 0),
          IntPoint(2000, 0), IntPoint(-2000, -1), IntPoint(2500, 2500)}
Exponents == 1..MaxD
Iterations == 0..MaxN
Limits == {-Q, 0, Q, CONST_DIVERGENCE_LIMIT * Q, 60 * Q, MaxFloat}
Angles == -180..180

\* ------------------------------------------------------------------- state
VARIABLES
    mode,              \* the entry point this behaviour exercises
    pc,                \* calc_zeta_n: "none", "iterating", "terminated", "raised"
    c, d, n, divergence_limit,   \* arguments of calc_zeta / calc_zeta_n
    zeta, i,           \* locals of calc_zeta_n (zeta: argument of calc_zeta)
    result,            \* the pair calc_zeta_n returned
    orbit,             \* history: the values the steps of this run produced
    step_out,          \* outcome of a direct calc_zeta call
    angle, rgb_out,    \* argument and outcome of a direct map_angle_to_colour call
    col_pc, col,       \* get_pixel_colour on the returned pair: its outcome
    main_pc,           \* main: "none", "loop", "called", "saved", "raised"
    xi, yi,            \* main: positions in x_points and y_points
    img,               \* main: the image, pixel -> colour
    writes,            \* history: how often putpixel wrote each pixel
    err                \* the exception that ended the call, "" when none

vars == <<mode, pc, c, d, n, divergence_limit, zeta, i, result, orbit,
          step_out, angle, rgb_out, col_pc, col, main_pc, xi, yi, img,
          writes, err>>

run_vars == <<pc, c, d, n, divergence_limit, zeta, i, result, orbit>>
colour_vars == <<angle, rgb_out, col_pc, col>>
main_vars == <<main_pc, xi, yi, img, writes>>

NoColour == [raised |-> FALSE, brightness |-> <<0, 1>>, colour |-> << >>]

Init ==
    /\ mode = "idle"
    /\ pc = "none"
    /\ c = CZero /\ d = CONST_D /\ n = CONST_N
    /\ divergence_limit = CONST_DIVERGENCE_LIMIT * Q
    /\ zeta = CZero /\ i = 0
    /\ result = <<CZero, 0>>
    /\ orbit = << >>
    /\ step_out = Val(CZero)
    /\ angle = 0 /\ rgb_out = [raised |-> FALSE, rgb |-> << >>]
    /\ col_pc = "none" /\ col = NoColour
    /\ main_pc = "none" /\ xi = 1 /\ yi = 1
    /\ img = [p \in Pixels |-> White]
    /\ writes = [p \in Pixels |-> 0]
    /\ err = ""

\* ------------------------------------------------------------- calc_zeta
\* A direct call calc_zeta(zeta_n_minus_one, c, d), as the tests make it.
CalcZetaCall ==
    /\ mode = "idle"
    /\ \E z \in Points, cc \in Points, dd \in Exponents :
        LET out == calc_zeta(z, cc, dd)
        IN  /\ mode' = "calc_zeta"
            /\ zeta' = z /\ c' = cc /\ d' = dd
            /\ step_out' = out
            /\ err' = IF out.raised THEN "OverflowError" ELSE ""
    /\ UNCHANGED <<pc, n, divergence_limit, i, result, orbit>>
    /\ UNCHANGED <<colour_vars, main_vars>>

\* ----------------------------------------------------------- calc_zeta_n
\* The frame of a call: zeta = 0, the loop about to take i = 1.
Enter(cc, dd, nn, limit) ==
    /\ pc' = "iterating"
    /\ c' = cc /\ d' = dd /\ n' = nn /\ divergence_limit' = limit
    /\ zeta' = CZero /\ i' = 1
    /\ orbit' = << >>
    /\ UNCHANGED result

\* calc_zeta_n(c, d, n, divergence_limit) with every argument given.
CalcZetaNCall ==
    /\ mode = "idle"
    /\ \E cc \in Points, dd \in Exponents, nn \in Iterations, limit \in Limits :
        Enter(cc, dd, nn, limit)
    /\ mode' = "calc_zeta_n"
    /\ UNCHANGED <<step_out, colour_vars, main_vars, err>>

\* calc_zeta_n(c): d, n and divergence_limit take their defaults.
CalcZetaNDefaultCall ==
    /\ mode = "idle"
    /\ \E cc \in Points :
        Enter(cc, CONST_D, CONST_N, CONST_DIVERGENCE_LIMIT * Q)
    /\ mode' = "calc_zeta_n"
    /\ UNCHANGED <<step_out, colour_vars, main_vars, err>>

\* LoopContinues with the range one too long.
LoopContinuesOneMore(ii, nn) == ii <= nn + 1

\* for i in range(1, n + 1): the loop has a next value of i.
LoopContinues(ii, nn) == ii <= nn

\* One pass of the loop body: the step, then the divergence test.
Iterate ==
    /\ pc = "iterating"
    /\ LoopContinues(i, n)
    /\ \E out \in {calc_zeta(zeta, c, d)} :
           IF out.raised
           THEN /\ pc' = "raised" /\ err' = "OverflowError"
                /\ UNCHANGED <<zeta, i, result, orbit>>
           ELSE /\ zeta' = out.val
                /\ orbit' = Append(orbit, out.val)
                /\ IF AbsRaises(out.val)
                   THEN /\ pc' = "raised" /\ err' = "OverflowError"
                        /\ UNCHANGED <<i, result>>
                   ELSE IF Diverges(out.val, divergence_limit)
                   THEN /\ pc' = "terminated"
                        /\ result' = <<out.val, i>>
                        /\ UNCHANGED <<i, err>>
                   ELSE /\ i' = i + 1
                        /\ UNCHANGED <<pc, result, err>>
    /\ UNCHANGED <<mode, c, d, n, divergence_limit, step_out>>
    /\ UNCHANGED <<colour_vars, main_vars>>

\* The loop is exhausted: return zeta, n.
ReturnN ==
    /\ pc = "iterating"
    /\ ~LoopContinues(i, n)
    /\ pc' = "terminated"
    /\ result' = <<zeta, n>>
    /\ UNCHANGED <<mode, c, d, n, divergence_limit, zeta, i, orbit, step_out>>
    /\ UNCHANGED <<colour_vars, main_vars, err>>

\* ------------------------------------------------------ get_pixel_colour
\* get_pixel_colour(zeta, iteration) on the pair an explicit call returned.
GetPixelColourCall ==
    /\ mode = "calc_zeta_n"
    /\ pc = "terminated"
    /\ col_pc = "none"
    /\ col' = get_pixel_colour(result[1], result[2])
    /\ col_pc' = "done"
    /\ err' = IF col'.raised THEN "ValueError" ELSE ""
    /\ UNCHANGED <<mode, run_vars, step_out, angle, rgb_out, main_vars>>

\* ---------------------------------------------------- map_angle_to_colour
\* A direct call map_angle_to_colour(angle).
MapAngleToColourCall ==
    /\ mode = "idle"
    /\ \E a \in Angles :
        /\ angle' = a
        /\ rgb_out' = map_angle_to_colour(a)
    /\ mode' = "map_angle_to_colour"
    /\ UNCHANGED <<run_vars, step_out, col_pc, col, main_vars, err>>

\* -------------------------------------------------------------------- main
\* x_points, y_points and the white image are set up; the loops start.
MainStart ==
    /\ mode = "idle"
    /\ mode' = "main"
    /\ main_pc' = "loop"
    /\ xi' = 1 /\ yi' = 1
    /\ img' = [p \in Pixels |-> White]
    /\ writes' = [p \in Pixels |-> 0]
    /\ UNCHANGED <<run_vars, step_out, colour_vars, err>>

coord == <<x_points[xi], y_points[yi]>>

\* coord = (x, y); c = coord_to_complex(coord); calc_zeta_n(c) is entered.
MainCall ==
    /\ mode = "main"
    /\ main_pc = "loop"
    /\ xi <= Len(x_points)
    /\ Enter(coord_to_complex(coord), CONST_D, CONST_N, CONST_DIVERGENCE_LIMIT * Q)
    /\ main_pc' = "called"
    /\ UNCHANGED <<mode, step_out, colour_vars, xi, yi, img, writes, err>>

\* calc_zeta_n returned: the colour, the pixel, putpixel, and the loops
\* move on.  An exception of get_pixel_colour or putpixel ends main.
MainPut ==
    /\ mode = "main"
    /\ main_pc = "called"
    /\ pc = "terminated"
    /\ LET colour == get_pixel_colour(result[1], result[2])
           pixel == coord_to_pixel(coord)
       IN  IF colour.raised
           THEN /\ main_pc' = "raised" /\ err' = "ValueError"
                /\ UNCHANGED <<xi, yi, img, writes, pc>>
           ELSE IF pixel \notin Pixels
           THEN /\ main_pc' = "raised" /\ err' = "IndexError"
                /\ UNCHANGED <<xi, yi, img, writes, pc>>
           ELSE /\ img' = [img EXCEPT ![pixel] = colour.colour]
                /\ writes' = [writes EXCEPT ![pixel] = @ + 1]
                /\ IF yi < Len(y_points)
                   THEN yi' = yi + 1 /\ xi' = xi
                   ELSE yi' = 1 /\ xi' = xi + 1
                /\ main_pc' = "loop"
                /\ pc' = "none"
                /\ UNCHANGED err
    /\ UNCHANGED <<mode, c, d, n, divergence_limit, zeta, i, result, orbit>>
    /\ UNCHANGED <<step_out, colour_vars>>

\* Both loops are exhausted: img.save(...).
MainSave ==
    /\ mode = "main"
    /\ main_pc = "loop"
    /\ xi > Len(x_points)
    /\ main_pc' = "saved"
    /\ UNCHANGED <<mode, run_vars, step_out, colour_vars, xi, yi, img, writes, err>>

\* ----------------------------------------------------------- specification
Next ==
    \/ CalcZetaCall
    \/ CalcZetaNCall
    \/ CalcZetaNDefaultCall
    \/ Iterate
    \/ ReturnN
    \/ GetPixelColourCall
    \/ MapAngleToColourCall
    \/ MainStart
    \/ MainCall
    \/ MainPut
    \/ MainSave

Spec == Init /\ [][Next]_vars

\* The interpreter runs a started loop to its end: a pass that can be made
\* is made, and an exhausted loop returns.
FairSpec == Spec /\ WF_vars(Iterate) /\ WF_vars(ReturnN)

\* ------------------------------------------------------------- properties
\* The magnitude tests of the properties, stated on the values themselves:
\* |z| > limit, |z| = limit, and z being a finite value of finite modulus.
Exceeds(z, limit) ==
    \/ IsInf(z.re) \/ IsInf(z.im)
    \/ /\ IsFin(z.re) /\ IsFin(z.im)
       /\ (limit < 0 \/ z.re * z.re + z.im * z.im > limit * limit)

AtLimit(z, limit) ==
    /\ IsFin(z.re) /\ IsFin(z.im) /\ limit >= 0
    /\ z.re * z.re + z.im * z.im = limit * limit

Representable(z) ==
    /\ IsFin(z.re) /\ IsFin(z.im)
    /\ z.re * z.re + z.im * z.im <= MaxFloat * MaxFloat

NeverExceeded == \A k \in 1..Len(orbit) : ~Exceeds(orbit[k], divergence_limit)

C3_Original ==
    (mode = "calc_zeta_n" /\ col_pc = "done") =>
        /\ (result[2] = n) =>
               (~col.raised /\ col.brightness[1] = 0 /\ col.colour = <<0, 0, 0>>)
        /\ (result[2] < n) => col.brightness[1] # 0

\* C4: when main has gone through the grid, every pixel of the image has
\* been set: none is left at the white background.
C4_Original ==
    main_pc = "saved" => \A p \in Pixels : writes[p] >= 1 /\ img[p] # White

GMul(u, v) == <<u[1] * v[1] - u[2] * v[2], u[1] * v[2] + u[2] * v[1]>>
GBig(u) == Abs(u[1]) > MaxReal \/ Abs(u[2]) > MaxReal
\* u multiplied by itself k times, one factor at a time; a power that has
\* left the range is not multiplied further (the largest component of the
\* powers of a Gaussian integer never decreases).
RECURSIVE GPow(_, _)
GPow(u, k) ==
    IF k = 0 THEN <<1, 0>>
    ELSE LET r == GPow(u, k - 1) IN IF GBig(r) THEN r ELSE GMul(r, u)

C7_Original ==
    mode = "map_angle_to_colour" =>
        /\ ~rgb_out.raised
        /\ Len(rgb_out.rgb) = 3
        /\ \E sector \in 0..2 :
            /\ \A j \in 1..sector : rgb_out.rgb[j] = 255
            /\ rgb_out.rgb[sector + 1] \in 0..254
            /\ \A j \in (sector + 2)..3 : rgb_out.rgb[j] = 1

\* The angle after the negative-angle rule, and the scaled angle
\* (765/360) * a as an integer: truncated, and rounded to the nearest
\* integer (a tie goes to the even one).
Normalised(a) == IF a < 0 THEN Abs(a) + 180 ELSE a
RawTruncated(a) ==
    CHOOSE r \in 0..765 : 360 * r <= 765 * a /\ 765 * a < 360 * (r + 1)
RawRounded(a) ==
    CHOOSE r \in 0..766 :
        /\ 2 * Abs(360 * r - 765 * a) <= 360
        /\ (2 * Abs(360 * r - 765 * a) = 360 => r % 2 = 0)
TupleOf(raw) ==
    Rep(raw \div 255, 255) \o <<raw % 255>> \o Rep(2 - raw \div 255, 1)

\* C8 as amended: a negative angle is replaced by |angle| + 180, the scaled
\* angle is truncated to an integer raw, and the tuple is built from raw
\* and sector = raw div 255.
C8_Truncates ==
    mode = "map_angle_to_colour" =>
        /\ ~rgb_out.raised
        /\ rgb_out.rgb = TupleOf(RawTruncated(Normalised(angle)))

\* C8 as stated: raw is the nearest integer to the scaled angle.
C8_Original ==
    mode = "map_angle_to_colour" =>
        /\ ~rgb_out.raised
        /\ rgb_out.rgb = TupleOf(RawRounded(Normalised(angle)))

\* -10 is treated as 190: raw is 403 (403.75 truncated), sector 1.
C8_Witness ==
    /\ mode = "map_angle_to_colour"
    /\ angle = -10
    /\ rgb_out.rgb = <<255, 148, 1>>

\* C9: a run applies at most n steps; one that returned without a step
\* exceeding the limit applied exactly n and returned (zeta_n, n); after the
\* return no step is applied; and a run that is iterating ends, by
\* returning or by the OverflowError of a step.
C9_Terminates ==
    /\ [](Len(orbit) <= n)
    /\ []((pc = "terminated" /\ NeverExceeded) =>
            /\ Len(orbit) = n
            /\ result = <<IF n = 0 THEN CZero ELSE orbit[n], n>>)
    /\ [][pc = "terminated" => (orbit' = orbit \/ orbit' = << >>)]_vars
    /\ (pc = "iterating") ~> (pc = "terminated" \/ pc = "raised")

\* A run of two or more steps that never exceeded the limit.
C9_Witness ==
    /\ pc = "terminated"
    /\ n >= 2 /\ Len(orbit) = n
    /\ NeverExceeded
    /\ result = <<orbit[n], n>>

\* C10: while main runs, every point of the grid maps to a pixel of the
\* image and distinct points map to distinct pixels; main writes no pixel
\* twice and none outside the image.
C10_DisjointPixels ==
    LET Grid == (1..Len(x_points)) \X (1..Len(y_points))
        PixelOf(g) == coord_to_pixel(<<x_points[g[1]], y_points[g[2]]>>)
    IN  /\ mode = "main" =>
               /\ \A g \in Grid : PixelOf(g) \in Pixels
               /\ \A g, h \in Grid : PixelOf(g) = PixelOf(h) => g = h
        /\ \A p \in Pixels : writes[p] <= 1
        /\ err # "IndexError"

\* main has saved the image: one pixel written per grid point, the last of
\* them the corner pixel.
C10_Witness ==
    /\ main_pc = "saved"
    /\ Cardinality({p \in Pixels : writes[p] = 1})
           = CONST_WIDTH_RESOLUTION * CONST_HEIGHT_RESOLUTION
    /\ writes[<<CONST_WIDTH_RESOLUTION, CONST_HEIGHT_RESOLUTION>>] = 1

=============================================================================
